---- MODULE Spec2Model ----
(***************************************************************************)
(* PersonalAI (agent_marketplace/agents/personal_ai.py) and the language-  *)
(* model client it calls (agent_marketplace/services/llm.py).               *)
(*                                                                         *)
(* Text is modelled as a sequence of tokens: a literal such as             *)
(* "[PAYMENT_SUCCEEDED]" is one token, string equality is equality of the  *)
(* token sequences, and Python's `x in text` is Contains(text, x).         *)
(***************************************************************************)
EXTENDS Naturals, Sequences, FiniteSets

VARIABLES
    \* ---- program state ----
    history,              \* self.context.history
    task_complete,        \* self.task_complete
    personal_basic_info,  \* self.personal_basic_info
    personal_preferences, \* self.personal_preferences: a function from names to summaries
    owner,                \* self.owner
    fs,                   \* the personal-data directory of the owner, as the file system has it
    api_key,              \* OpenAILLMProvider.api_key is resolved (truthy)
    \* ---- position and locals of on_message / generate_response ----
    pc,
    message,              \* the inbound message of the turn
    retry,
    validator_response,
    response,
    toolQueue,            \* tool calls of the candidate not yet dispatched
    \* ---- position and locals of retrieve_personal_preferences ----
    rpc,
    rsender,              \* the counterparty of the running retrieval
    rfiles,               \* os.listdir() entries not yet visited
    rextracts,            \* the local list personal_preferences
    retrievals,           \* calls of retrieve_personal_preferences so far
    \* ---- observation (history variables of the verification) ----
    llmCalls,             \* calls of llm.generate in the current operation, in order
    requests,             \* provider requests sent in the current operation
    toolLog,              \* tool handler invocations in the current turn, in order
    paid,                 \* a tool invoked in the current turn returned the payment marker
    turns,                \* on_message turns begun on this Context, the current one included
    paidBefore,           \* a tool invoked in the turn before this one returned the payment marker
    hist0,                \* history right after on_message's first append
    attemptStart,         \* Len(history) when the running attempt started
    generated,            \* the candidate of the running attempt's first generation
    rollback,             \* what the last rejected attempt did to history
    submitted,            \* the candidate last given to the validator, with the raw verdict
    outcome,              \* how the last operation ended
    before,               \* personal_basic_info and personal_preferences when the retrieval began
    computed              \* per counterparty: how often its preference entry was written

convVars  == <<pc, message, retry, validator_response, response, toolQueue>>
retrVars  == <<rpc, rsender, rfiles, rextracts, retrievals, before, computed>>
envVars   == <<owner, fs, api_key>>
turnVars  == <<turns, paidBefore>>
ghostVars == <<llmCalls, requests, toolLog, paid, hist0, attemptStart, generated, rollback,
               submitted, outcome>>
vars == <<history, task_complete, personal_basic_info, personal_preferences,
          envVars, convVars, retrVars, ghostVars, turnVars>>

(***************************************************************************)
(* Bounds of the model.                                                    *)
(***************************************************************************)
MaxInitHistory  == 11  \* length of an earlier history that carries the payment marker
MaxPlainHistory == 2   \* length of an earlier history that does not
MaxToolCalls    == 2   \* tool calls in one candidate
MaxDocs         == 2   \* documents of the personal-data directory besides basic_info.json
MaxRetrievals   == 2   \* calls of init_chat on one instance
MaxTurns        == 2   \* on_message turns on one Context

(***************************************************************************)
(* Literals of the program.                                                *)
(***************************************************************************)
MaxRetries    == 3     \* while retry < 3
HistoryWindow == 10    \* [...][-10:]

PAYMENT_SUCCEEDED == "[PAYMENT_SUCCEEDED]"
CONVERSATION_ENDS == "[CONVERSATION_ENDS]"
YES               == "[YES]"

SelfName    == "personal_ai"     \* self.name
SenderName  == "service_agent"   \* sender.name of the turn
PaymentTool == "process_coinbase_payment"

\* agent_marketplace.tools.registered_tools: the names that have a handler.
registered_tools == {PaymentTool}

\* A registry that answers for every name.
ToolRegisteredAny(name) == TRUE

\* self.tools[tool_func_name]: the lookup succeeds for the registered names.
ToolRegistered(name) == name \in registered_tools

(***************************************************************************)
(* Text helpers.                                                           *)
(***************************************************************************)
Contains(text, tok) == \E i \in 1..Len(text) : text[i] = tok

\* Python's seq[-n:]
LastN(s, n) == IF Len(s) <= n THEN s ELSE SubSeq(s, Len(s) - n + 1, Len(s))

\* Python's seq.pop() on a non-empty list
Pop(s) == SubSeq(s, 1, Len(s) - 1)

RECURSIVE Join(_, _)
Join(lines, sep) ==
    IF lines = <<>> THEN <<>>
    ELSE IF Len(lines) = 1 THEN lines[1]
    ELSE lines[1] \o <<sep>> \o Join(Tail(lines), sep)

IsPrefix(s, t) == Len(s) <= Len(t) /\ SubSeq(t, 1, Len(s)) = s

Msg(sender, content) == [sender |-> sender, content |-> content]

\* "\n".join([f"{msg.sender}: {msg.content}" for msg in history][-10:])
ConversationHistory(h) ==
    Join(LastN([i \in 1..Len(h) |-> h[i].sender \o <<": ">> \o h[i].content], HistoryWindow), "\n")

\* A variant that looks at the newest entry only.
PaymentSeenInLastOnly(h) == h # <<>> /\ Contains(h[Len(h)].content, PAYMENT_SUCCEEDED)

\* if "[PAYMENT_SUCCEEDED]" in conversation_history
PaymentSeen(h) == Contains(ConversationHistory(h), PAYMENT_SUCCEEDED)

\* A variant that tags a tool result with the bare tool name.
ToolSenderBare(name) == <<name>>

\* sender=f"[{tool_func_name}] tool"
ToolSender(name) == <<"[", name, "] tool">>

(***************************************************************************)
(* What the collaborators outside the repository's source can answer.      *)
(***************************************************************************)
NoError       == [type |-> "none", text |-> <<>>]
ApiKeyMissing == [type |-> "ValueError", text |-> <<"API key not provided">>]
ApiError      == [type |-> "ValueError", text |-> <<"OpenAI API error: ", "provider failure">>]
KeyError(key) == [type |-> "KeyError", text |-> <<key>>]
IndexError    == [type |-> "IndexError", text |-> <<"pop from empty list">>]

\* Completions the model may give to the chat-state prompt.
CheckStateOutputs == {<<"[CONTINUE]">>, <<CONVERSATION_ENDS>>, <<CONVERSATION_ENDS, ".">>}
\* Contents of a generated candidate.
ReplyContents == {<<"reply">>, <<CONVERSATION_ENDS>>}
\* Tool calls a candidate may carry (the model may name a tool nobody registered).
ToolNames == {PaymentTool, "unknown_tool"}
\* The i-th tool call of a candidate; its arguments are its own, so two calls
\* of one candidate can be told apart.
ToolCall(name, i) == [name |-> name, arguments |-> <<"call", i>>]
ToolCallSeqs ==
    UNION {{[i \in 1..k |-> ToolCall(f[i], i)] : f \in [1..k -> ToolNames]} : k \in 0..MaxToolCalls}
\* Completions of the generation call: a text, or tool calls with no text.
GenerationOutputs ==
    [content : ReplyContents, tool_calls : {<<>>}]
    \cup [content : {<<>>}, tool_calls : ToolCallSeqs \ {<<>>}]
\* Completions of the regeneration call: the same tools are offered again, so
\* it is a text or, once more, a tool call with no text.
RegenerationOutputs ==
    [content : {<<"reply">>}, tool_calls : {<<>>}]
    \cup [content : {<<>>}, tool_calls : {<<ToolCall(PaymentTool, 1)>>}]
\* Texts a tool handler may return.
ToolResults == {<<"charge confirmed ", PAYMENT_SUCCEEDED>>, <<"payment failed">>}
\* Completions the model may give to the validation prompt.
ValidatorOutputs == {<<YES>>, <<YES, " but the reply is too long">>}
\* Inbound messages of a turn.
InboundContents == {<<>>, <<"hello">>, <<"paid ", PAYMENT_SUCCEEDED>>}

\* Histories a turn may start from: earlier messages, at most one carrying the marker.
\* Those with the marker are long enough for it to lie outside the window.
PlainMsg  == Msg(<<SenderName>>, <<"earlier">>)
MarkerMsg == Msg(<<SenderName>>, <<"earlier ", PAYMENT_SUCCEEDED>>)
InitHistories ==
    {[i \in 1..n |-> PlainMsg] : n \in 0..MaxPlainHistory}
    \cup UNION {{[i \in 1..n |-> IF i = p THEN MarkerMsg ELSE PlainMsg] : p \in 1..n} : n \in 1..MaxInitHistory}

(***************************************************************************)
(* OpenAILLMProvider.generate: the results one call can have. `outputs` is *)
(* what the provider may complete. sent is the number of provider requests *)
(* the call made.                                                          *)
(***************************************************************************)
\* A variant whose client sends the request a second time when it fails.
generateWithRetry(key, outputs) ==
    IF ~key
    THEN {[ok |-> FALSE, out |-> <<>>, error |-> ApiKeyMissing, sent |-> 0]}
    ELSE {[ok |-> TRUE, out |-> <<o>>, error |-> NoError, sent |-> 1] : o \in outputs}
         \cup {[ok |-> FALSE, out |-> <<>>, error |-> ApiError, sent |-> 2]}

generate(key, outputs) ==
    IF ~key
    THEN {[ok |-> FALSE, out |-> <<>>, error |-> ApiKeyMissing, sent |-> 0]}
    ELSE {[ok |-> TRUE, out |-> <<o>>, error |-> NoError, sent |-> 1] : o \in outputs}
         \cup {[ok |-> FALSE, out |-> <<>>, error |-> ApiError, sent |-> 1]}

\* One call of self.llm.generate as seen from outside.
LLMCalled(kind, tools, feedback, r) ==
    /\ llmCalls' = Append(llmCalls, [kind |-> kind, tools |-> tools, feedback |-> feedback])
    /\ requests' = requests + r.sent

\* An exception leaves on_message.
Raise(err) ==
    /\ pc' = "raised"
    /\ outcome' = <<[type |-> "raise", error |-> err]>>

\* on_message line 42: response == "[CONVERSATION_ENDS]" compares the dict
\* generate_response returned with a str, which is never equal.
ResponseIsEndsLiteral(resp) == FALSE

\* on_message lines 37-45, after generate_response returned resp; h and tc are
\* history and task_complete as generate_response left them.
Return(resp, via, h, tc) ==
    /\ history' = Append(h, Msg(<<SelfName>>, resp.content))
    /\ task_complete' = (tc \/ ResponseIsEndsLiteral(resp))
    /\ pc' = "returned"
    /\ outcome' = <<[type |-> "return", via |-> via, response |-> resp,
                     reply |-> Msg(<<SelfName>>, resp.content)]>>

\* The dict llm.generate returned, with the place of the call in the turn (n)
\* to tell one candidate from another.
Candidate(out, n) == [content |-> out.content, tool_calls |-> out.tool_calls, n |-> n]

\* A variant that never enters the tool-call branch.
PcIgnoringToolCalls(tool_calls) == "validate"

\* generate_response line 109: if response["tool_calls"]
PcAfterGeneration(tool_calls) == IF tool_calls # <<>> THEN "dispatch" ELSE "validate"

NoResponse   == [content |-> <<>>, tool_calls |-> <<>>, n |-> 0]

\* A variant whose closing reply carries more than the literal.
EndsResponseWithNote == [content |-> <<CONVERSATION_ENDS, " goodbye">>, tool_calls |-> <<>>, n |-> 0]

\* return {"content": "[CONVERSATION_ENDS]"}
EndsResponse == [content |-> <<CONVERSATION_ENDS>>, tool_calls |-> <<>>, n |-> 0]

\* A variant that never hands the validator's words to the next generation.
ValidatorMessageDropped(vr) == <<>>

\* validator_response["content"] if validator_response else ""
ValidatorMessage(vr) == IF vr = <<>> THEN <<>> ELSE vr[1].content

\* llm_call_to_validate_response lines 148-150: what becomes of the raw completion.
ValidatorContent(raw, input_message) ==
    IF raw # <<YES>>
    THEN <<"# Notes\nPlease do not generate response like this: \n">> \o input_message
         \o <<"\n\nThe reason is: \n">> \o raw
    ELSE raw

\* A variant that accepts any verdict text with the token in it.
ApprovedIfTokenOccurs(content) == Contains(content, YES)

\* generate_response line 129: validator_response["content"] == "[YES]"
Approved(content) == content = <<YES>>

(***************************************************************************)
(* on_message, lines 29-35: append the inbound message, enter              *)
(* generate_response.                                                      *)
(***************************************************************************)
on_message ==
    /\ pc = "idle"
    /\ rpc = "idle"
    /\ \E c \in InboundContents :
        LET m == Msg(<<SenderName>>, c)
            h == IF c # <<>> THEN Append(history, m) ELSE history
        IN /\ message' = m
           /\ history' = h
           /\ hist0' = h
    /\ pc' = "check"
    /\ llmCalls' = <<>>
    /\ requests' = 0
    /\ toolLog' = <<>>
    /\ paid' = FALSE
    /\ UNCHANGED <<turnVars, task_complete, personal_basic_info, personal_preferences, envVars,
                   retry, validator_response, response, toolQueue, retrVars,
                   attemptStart, generated, rollback, submitted, outcome>>

(***************************************************************************)
(* generate_response lines 97-103 with llm_call_to_check_chat_state.       *)
(***************************************************************************)
llm_call_to_check_chat_state ==
    /\ pc = "check"
    /\ IF PaymentSeen(history)
       THEN /\ Return(EndsResponse, "checkstate", history, TRUE)
            /\ UNCHANGED <<llmCalls, requests, retry, validator_response>>
       ELSE \E r \in generate(api_key, CheckStateOutputs) :
            /\ LLMCalled("check", FALSE, <<>>, r)
            /\ IF ~r.ok
               THEN /\ Raise(r.error)
                    /\ UNCHANGED <<history, task_complete, retry, validator_response>>
               ELSE IF r.out[1] = <<CONVERSATION_ENDS>>
               THEN /\ Return(EndsResponse, "checkstate", history, TRUE)
                    /\ UNCHANGED <<retry, validator_response>>
               ELSE /\ pc' = "generate"
                    /\ retry' = 0
                    /\ validator_response' = <<>>
                    /\ UNCHANGED <<history, task_complete, outcome>>
    /\ UNCHANGED <<turnVars, personal_basic_info, personal_preferences, envVars, message,
                   response, toolQueue, retrVars, toolLog, paid, hist0, attemptStart, generated,
                   rollback, submitted>>

(***************************************************************************)
(* llm_call_to_generate_response at line 106: the first generation of an   *)
(* attempt.                                                                *)
(***************************************************************************)
llm_call_to_generate_response ==
    /\ pc = "generate"
    /\ attemptStart' = Len(history)
    /\ IF SenderName \notin DOMAIN personal_preferences
       THEN /\ Raise(KeyError(SenderName))
            /\ UNCHANGED <<llmCalls, requests, response, toolQueue, generated>>
       ELSE \E r \in generate(api_key, GenerationOutputs) :
            /\ LLMCalled("generate", TRUE, ValidatorMessage(validator_response), r)
            /\ IF ~r.ok
               THEN /\ Raise(r.error)
                    /\ UNCHANGED <<response, toolQueue, generated>>
               ELSE /\ response' = Candidate(r.out[1], Len(llmCalls) + 1)
                    /\ generated' = Candidate(r.out[1], Len(llmCalls) + 1)
                    /\ toolQueue' = r.out[1].tool_calls
                    /\ pc' = PcAfterGeneration(r.out[1].tool_calls)
                    /\ UNCHANGED outcome
    /\ UNCHANGED <<turnVars, history, task_complete, personal_basic_info, personal_preferences,
                   envVars, message, retry, validator_response, retrVars, toolLog, paid,
                   hist0, rollback, submitted>>

(***************************************************************************)
(* generate_response lines 110-122: one iteration of the tool-call loop.   *)
(***************************************************************************)
tool_dispatch ==
    /\ pc = "dispatch"
    /\ toolQueue # <<>>
    /\ LET tool_call == Head(toolQueue)
       IN IF ~ToolRegistered(tool_call.name)
          THEN /\ Raise(KeyError(tool_call.name))
               /\ UNCHANGED <<history, toolQueue, toolLog, paid>>
          ELSE \E tool_func_result \in ToolResults :
               /\ toolLog' = Append(toolLog, [name |-> tool_call.name,
                                              arguments |-> tool_call.arguments,
                                              message |-> message,
                                              retry |-> retry,
                                              at |-> Len(history) + 1])
               /\ history' = Append(history, Msg(ToolSender(tool_call.name), tool_func_result))
               /\ paid' = (paid \/ Contains(tool_func_result, PAYMENT_SUCCEEDED))
               /\ toolQueue' = Tail(toolQueue)
               /\ pc' = IF Tail(toolQueue) = <<>> THEN "regenerate" ELSE "dispatch"
               /\ UNCHANGED outcome
    /\ UNCHANGED <<turnVars, task_complete, personal_basic_info, personal_preferences, envVars,
                   message, retry, validator_response, response, retrVars, llmCalls,
                   requests, hist0, attemptStart, generated, rollback, submitted>>

(***************************************************************************)
(* llm_call_to_generate_response at line 125: the regeneration after the   *)
(* tool calls.                                                             *)
(***************************************************************************)
regenerate_response ==
    /\ pc = "regenerate"
    /\ \E r \in generate(api_key, RegenerationOutputs) :
        /\ LLMCalled("regenerate", TRUE, ValidatorMessage(validator_response), r)
        /\ IF ~r.ok
           THEN /\ Raise(r.error)
                /\ UNCHANGED response
           ELSE /\ response' = Candidate(r.out[1], Len(llmCalls) + 1)
                /\ pc' = "validate"
                /\ UNCHANGED outcome
    /\ UNCHANGED <<turnVars, history, task_complete, personal_basic_info, personal_preferences,
                   envVars, message, retry, validator_response, toolQueue, retrVars,
                   toolLog, paid, hist0, attemptStart, generated, rollback, submitted>>

(***************************************************************************)
(* generate_response lines 128-137 with llm_call_to_validate_response:     *)
(* validate, then return, or pop and retry, or pop and give up.            *)
(***************************************************************************)
llm_call_to_validate_response ==
    /\ pc = "validate"
    /\ \E r \in generate(api_key, ValidatorOutputs) :
        /\ LLMCalled("validate", FALSE, response.content, r)
        /\ IF ~r.ok
           THEN /\ Raise(r.error)
                /\ UNCHANGED <<history, task_complete, retry, validator_response,
                               rollback, submitted>>
           ELSE LET content == ValidatorContent(r.out[1], response.content)
                IN /\ validator_response' = <<[content |-> content]>>
                   /\ submitted' = <<[candidate |-> response, raw |-> r.out[1]]>>
                   /\ IF Approved(content)
                      THEN /\ Return(response, "approved", history, task_complete)
                           /\ UNCHANGED <<retry, rollback>>
                      ELSE IF history = <<>>
                      THEN /\ Raise(IndexError)
                           /\ UNCHANGED <<history, task_complete, retry, rollback>>
                      ELSE /\ rollback' = <<[start |-> attemptStart,
                                             after |-> Len(Pop(history)),
                                             tools |-> Len(history) - attemptStart,
                                             removed |-> Len(history)]>>
                           /\ retry' = retry + 1
                           /\ IF retry + 1 < MaxRetries
                              THEN /\ history' = Pop(history)
                                   /\ pc' = "generate"
                                   /\ UNCHANGED <<task_complete, outcome>>
                              ELSE Return(response, "exhausted", Pop(history), task_complete)
    /\ UNCHANGED <<turnVars, personal_basic_info, personal_preferences, envVars, message,
                   response, toolQueue, retrVars, toolLog, paid, hist0, attemptStart, generated>>

(***************************************************************************)
(* The personal-data directory and retrieve_personal_preferences.          *)
(***************************************************************************)
\* File names: a stem and an extension.
BasicInfoFile == [stem |-> <<"basic_info">>, ext |-> ".json"]
JsonDocs  == {[stem |-> <<"document", i>>, ext |-> ".json"] : i \in 1..MaxDocs}
OtherFile == [stem |-> <<"notes">>, ext |-> ".txt"]
Counterparties == {SenderName, "other_agent"}

\* A variant that takes every file of the directory for a JSON document.
EndsWithAnything(file) == TRUE

\* file.endswith(".json")
EndsWithJson(file) == file.ext = ".json"

RECURSIVE Listings(_)
\* Every order os.listdir() may give the files of a directory in.
Listings(files) ==
    IF files = {} THEN {<<>>}
    ELSE UNION {{<<f>> \o l : l \in Listings(files \ {f})} : f \in files}

\* Directories: there or not; with the files in any listing order, at most MaxDocs
\* documents besides basic_info.json, some of which json.load cannot parse.
MissingDirectory == [exists |-> FALSE, listing |-> <<>>, malformed |-> {}]
FileSystems ==
    {MissingDirectory}
    \cup UNION {UNION {{[exists |-> TRUE, listing |-> l, malformed |-> bad]
                        : l \in Listings(d), bad \in SUBSET (d \cap JsonDocs)}
                       : d \in SUBSET (JsonDocs \cup {BasicInfoFile, OtherFile})}}

\* os.path.join(os.path.dirname(__file__), "..", "..", "data", "personal_data", self.owner)
personal_data_dir(o) == <<"agents", "/", "..", "/", "..", "/", "data", "/", "personal_data", "/", o>>

\* A variant whose message does not say which directory.
DirectoryMissingUnnamed(o) ==
    [type |-> "ValueError", text |-> <<"Personal data directory does not exist.">>]

DirectoryMissing(o) ==
    [type |-> "ValueError",
     text |-> <<"Personal data directory ">> \o personal_data_dir(o)
              \o <<" does not exist. Is the client name correct?">>]
FileNotFound(file) == [type |-> "FileNotFoundError", text |-> <<file>>]
JSONDecodeError(file) == [type |-> "JSONDecodeError", text |-> <<file>>]

\* Completions of the summarization prompt.
SummaryOutputs == {<<"summary one">>, <<"summary two">>}
\* The completion of the extraction prompt for a document.
ExtractOutputs(file) == {<<"extract of ", file>>}

StrValue(text)  == [kind |-> "str", content |-> text]
DictValue(text) == [kind |-> "dict", content |-> text]

\* d[k] = v on a dict
DictSet(d, k, v) == [n \in DOMAIN d \cup {k} |-> IF n = k THEN v ELSE d[n]]
\* The counter of a name that may have none yet
Count(d, k) == IF k \in DOMAIN d THEN d[k] ELSE 0

\* An exception leaves retrieve_personal_preferences.
RetrievalRaise(err) ==
    /\ rpc' = "idle"
    /\ outcome' = <<[type |-> "raise", error |-> err]>>

(***************************************************************************)
(* init_chat -> retrieve_personal_preferences, lines 47-59: the directory  *)
(* check and the basic-info summary. The directory is as it was at the     *)
(* last call, or has been removed since.                                   *)
(***************************************************************************)
init_chat ==
    /\ rpc = "idle"
    /\ pc = "idle"
    /\ retrievals < MaxRetrievals
    /\ retrievals' = retrievals + 1
    /\ before' = <<[basic |-> personal_basic_info, preferences |-> personal_preferences]>>
    /\ \E sender \in Counterparties, dir \in {fs, MissingDirectory} :
        /\ rsender' = sender
        /\ fs' = dir
        /\ IF ~dir.exists
           THEN /\ RetrievalRaise(DirectoryMissing(owner))
                /\ llmCalls' = <<>>
                /\ requests' = 0
                /\ UNCHANGED <<personal_basic_info, rfiles, rextracts>>
           ELSE IF ~Contains(dir.listing, BasicInfoFile)
           THEN /\ RetrievalRaise(FileNotFound(BasicInfoFile))
                /\ llmCalls' = <<>>
                /\ requests' = 0
                /\ UNCHANGED <<personal_basic_info, rfiles, rextracts>>
           ELSE \E r \in generate(api_key, SummaryOutputs) :
                /\ llmCalls' = <<[kind |-> "summarize", tools |-> FALSE,
                                  feedback |-> <<BasicInfoFile>>]>>
                /\ requests' = r.sent
                /\ IF ~r.ok
                   THEN /\ RetrievalRaise(r.error)
                        /\ UNCHANGED <<personal_basic_info, rfiles, rextracts>>
                   ELSE /\ personal_basic_info' = DictValue(r.out[1])
                        /\ rfiles' = dir.listing
                        /\ rextracts' = <<>>
                        /\ rpc' = "documents"
                        /\ outcome' = <<>>
    /\ UNCHANGED <<turnVars, history, task_complete, personal_preferences, owner, api_key, convVars,
                   computed, toolLog, paid, hist0, attemptStart, generated, rollback, submitted>>

(***************************************************************************)
(* retrieve_personal_preferences lines 63-73: one iteration over           *)
(* os.listdir(personal_data_dir).                                          *)
(***************************************************************************)
retrieve_document ==
    /\ rpc = "documents"
    /\ rfiles # <<>>
    /\ LET file == Head(rfiles)
       IN IF ~(EndsWithJson(file) /\ file # BasicInfoFile)
          THEN /\ rfiles' = Tail(rfiles)
               /\ UNCHANGED <<rpc, rextracts, llmCalls, requests, outcome>>
          ELSE IF file \in fs.malformed
          THEN /\ RetrievalRaise(JSONDecodeError(file))
               /\ UNCHANGED <<rfiles, rextracts, llmCalls, requests>>
          ELSE \E r \in generate(api_key, ExtractOutputs(file)) :
               /\ LLMCalled("retrieve", FALSE, <<file>>, r)
               /\ IF ~r.ok
                  THEN /\ RetrievalRaise(r.error)
                       /\ UNCHANGED <<rfiles, rextracts>>
                  ELSE /\ rextracts' = Append(rextracts, r.out[1])
                       /\ rfiles' = Tail(rfiles)
                       /\ UNCHANGED <<rpc, outcome>>
    /\ UNCHANGED <<turnVars, history, task_complete, personal_basic_info, personal_preferences,
                   envVars, convVars, rsender, retrievals, before, computed,
                   toolLog, paid, hist0, attemptStart, generated, rollback, submitted>>

(***************************************************************************)
(* retrieve_personal_preferences lines 75-84: the final summary and the    *)
(* write of personal_preferences[sender.name].                             *)
(***************************************************************************)
summarize_personal_preferences ==
    /\ rpc = "documents"
    /\ rfiles = <<>>
    /\ \E r \in generate(api_key, SummaryOutputs) :
        /\ LLMCalled("summarize", FALSE, Join(rextracts, "\n\n"), r)
        /\ IF ~r.ok
           THEN /\ RetrievalRaise(r.error)
                /\ UNCHANGED <<personal_preferences, computed>>
           ELSE /\ personal_preferences' = DictSet(personal_preferences, rsender, r.out[1])
                /\ computed' = DictSet(computed, rsender, Count(computed, rsender) + 1)
                /\ rpc' = "idle"
                /\ outcome' = <<[type |-> "return"]>>
    /\ UNCHANGED <<turnVars, history, task_complete, personal_basic_info, envVars, convVars,
                   rsender, rfiles, rextracts, retrievals, before,
                   toolLog, paid, hist0, attemptStart, generated, rollback, submitted>>

(***************************************************************************)
(* Spec: one on_message turn from any earlier history.                     *)
(***************************************************************************)
ConversationIdle ==
    /\ pc = "idle"
    /\ message = Msg(<<>>, <<>>)
    /\ retry = 0
    /\ validator_response = <<>>
    /\ response = NoResponse
    /\ toolQueue = <<>>
    /\ toolLog = <<>>
    /\ paid = FALSE
    /\ turns = 1
    /\ paidBefore = FALSE
    /\ hist0 = <<>>
    /\ attemptStart = 0
    /\ generated = NoResponse
    /\ rollback = <<>>
    /\ submitted = <<>>

(***************************************************************************)
(* TwoTurnSpec: a conversation that begins with an empty Context and whose *)
(* caller sends a further message after a turn has returned.               *)
(***************************************************************************)
\* The caller of on_message, after the reply of a turn: the agent is about to
\* be called again on the same Context. The locals of the turn that returned
\* are gone; the Context and the agent's fields stay.
next_turn ==
    /\ pc = "returned"
    /\ turns < MaxTurns
    /\ pc' = "idle"
    /\ turns' = turns + 1
    /\ paidBefore' = paid
    /\ message' = Msg(<<>>, <<>>)
    /\ retry' = 0
    /\ validator_response' = <<>>
    /\ response' = NoResponse
    /\ toolQueue' = <<>>
    /\ toolLog' = <<>>
    /\ paid' = FALSE
    /\ hist0' = <<>>
    /\ attemptStart' = 0
    /\ generated' = NoResponse
    /\ rollback' = <<>>
    /\ submitted' = <<>>
    /\ llmCalls' = <<>>
    /\ requests' = 0
    /\ outcome' = <<>>
    /\ UNCHANGED <<history, task_complete, personal_basic_info, personal_preferences,
                   envVars, retrVars>>

RetrievalIdle ==
    /\ rpc = "idle"
    /\ rsender = ""
    /\ rfiles = <<>>
    /\ rextracts = <<>>
    /\ retrievals = 0
    /\ before = <<>>

Init ==
    /\ history \in InitHistories
    /\ task_complete = FALSE
    /\ personal_basic_info = DictValue(<<"summary one">>)
    /\ personal_preferences \in {<<>>, [n \in {SenderName} |-> <<"summary one">>]}
    /\ owner = "kelly"
    /\ fs \in {f \in FileSystems : f.listing = <<BasicInfoFile>>}
    /\ api_key \in BOOLEAN
    /\ ConversationIdle
    /\ RetrievalIdle
    /\ computed = [n \in DOMAIN personal_preferences |-> 1]
    /\ llmCalls = <<>>
    /\ requests = 0
    /\ outcome = <<>>

Next ==
    \/ on_message
    \/ llm_call_to_check_chat_state
    \/ llm_call_to_generate_response
    \/ tool_dispatch
    \/ regenerate_response
    \/ llm_call_to_validate_response

Spec == Init /\ [][Next]_vars

(***************************************************************************)
(* RetrievalSpec: init_chat calls on a fresh instance.                     *)
(***************************************************************************)
TwoTurnInit ==
    /\ history = <<>>
    /\ task_complete = FALSE
    /\ personal_basic_info = DictValue(<<"summary one">>)
    /\ personal_preferences = [n \in {SenderName} |-> <<"summary one">>]
    /\ owner = "kelly"
    /\ fs \in {f \in FileSystems : f.listing = <<BasicInfoFile>>}
    /\ api_key = TRUE
    /\ ConversationIdle
    /\ RetrievalIdle
    /\ computed = [n \in DOMAIN personal_preferences |-> 1]
    /\ llmCalls = <<>>
    /\ requests = 0
    /\ outcome = <<>>

TwoTurnNext ==
    \/ on_message
    \/ llm_call_to_check_chat_state
    \/ llm_call_to_generate_response
    \/ tool_dispatch
    \/ regenerate_response
    \/ llm_call_to_validate_response
    \/ next_turn

TwoTurnSpec == TwoTurnInit /\ [][TwoTurnNext]_vars

RetrievalInit ==
    /\ history = <<>>
    /\ task_complete = FALSE
    /\ personal_basic_info = StrValue(<<>>)
    /\ personal_preferences = <<>>
    /\ computed = <<>>
    /\ \/ owner = "ghost_user" /\ fs = MissingDirectory
       \/ owner = "kelly" /\ fs \in FileSystems
    /\ api_key \in BOOLEAN
    /\ ConversationIdle
    /\ RetrievalIdle
    /\ llmCalls = <<>>
    /\ requests = 0
    /\ outcome = <<>>

RetrievalNext ==
    \/ init_chat
    \/ retrieve_document
    \/ summarize_personal_preferences

RetrievalSpec == RetrievalInit /\ [][RetrievalNext]_vars

(***************************************************************************)
(* Observations the properties are stated with.                            *)
(***************************************************************************)
\* Calls of llm.generate of one kind in the running operation.
NumCalls(kind) == Cardinality({i \in 1..Len(llmCalls) : llmCalls[i].kind = kind})

\* The turn is over.
Ended == pc \in {"returned", "raised"}

\* The turn ended in an exception of this type.
RaisedType(type) == pc = "raised" /\ outcome[1].error.type = type

\* The turn ended in generate_response's retry loop: the validator has spoken
\* and no model call, tool lookup or dict lookup failed. The history held at
\* least the inbound message when the loop began.
EndedByTheLoop ==
    /\ Ended
    /\ hist0 # <<>>
    /\ submitted # <<>>
    /\ ~RaisedType("ValueError")
    /\ ~RaisedType("KeyError")

\* The literal is in the content of one of the last HistoryWindow entries of h.
MarkerInWindow(h) ==
    \E i \in 1..Len(h) :
        /\ i > Len(h) - HistoryWindow
        /\ Contains(h[i].content, PAYMENT_SUCCEEDED)

\* The retry bound by itself: never more than MaxRetries attempts or validator calls.
RetryBound ==
    /\ retry <= MaxRetries
    /\ NumCalls("generate") <= MaxRetries
    /\ NumCalls("validate") <= MaxRetries

(***************************************************************************)
(* C1. Retry bound: whatever the validator answers and whatever tool calls *)
(* the model chooses, one call of generate_response runs at most 3         *)
(* Generate->Validate attempts (at most 3 validator calls) and then        *)
(* returns: the retry loop never ends the call in another way.             *)
(***************************************************************************)
C1_RetryBoundThenReturns ==
    /\ NumCalls("generate") <= MaxRetries
    /\ NumCalls("validate") <= MaxRetries
    /\ EndedByTheLoop => pc = "returned"

(***************************************************************************)
(* C2. Graceful degradation: from any history, if the validator rejects    *)
(* every candidate, generate_response performs exactly 3 attempts and      *)
(* returns the candidate of the 3rd attempt; a rejection never makes       *)
(* generate_response or on_message raise.                                  *)
(***************************************************************************)
C2_GracefulDegradation ==
    (EndedByTheLoop /\ submitted[1].raw # <<YES>>) =>
        /\ pc = "returned"
        /\ outcome[1].via = "exhausted"
        /\ NumCalls("generate") = 3
        /\ NumCalls("validate") = 3
        /\ outcome[1].response = submitted[1].candidate

(***************************************************************************)
(* C3. Pop-on-reject: after the rollback of a rejected attempt, whatever   *)
(* the number of tool calls of its candidate, context.history is as long   *)
(* as it was immediately before the attempt started appending.             *)
(***************************************************************************)
C3_PopOnReject ==
    rollback # <<>> => rollback[1].after = rollback[1].start

(***************************************************************************)
(* C4. One tool-dispatch round per turn: all tool handler invocations of   *)
(* one on_message turn belong to the same attempt; no tool is dispatched   *)
(* again in a later retry attempt of the turn.                             *)
(***************************************************************************)
C4_OneDispatchRound ==
    \A i, j \in 1..Len(toolLog) : toolLog[i].retry = toolLog[j].retry

(***************************************************************************)
(* C5. Deterministic short-circuit: when [PAYMENT_SUCCEEDED] is in the     *)
(* content of one of the last 10 entries of context.history at the start   *)
(* of CheckState, the check answers [CONVERSATION_ENDS] and the turn makes *)
(* no language-model call at all.                                          *)
(***************************************************************************)
C5_ShortCircuit ==
    (pc \notin {"idle", "check"} /\ MarkerInWindow(hist0)) =>
        /\ pc = "returned"
        /\ outcome[1].via = "checkstate"
        /\ outcome[1].response.content = <<CONVERSATION_ENDS>>
        /\ outcome[1].reply.content = <<CONVERSATION_ENDS>>
        /\ llmCalls = <<>>
        /\ requests = 0

\* The marker sits in the oldest entry of the window of a history longer than the
\* window, and the turn has ended by the short-circuit.
C5_Witness ==
    /\ pc = "returned"
    /\ Len(hist0) > HistoryWindow
    /\ Contains(hist0[Len(hist0) - HistoryWindow + 1].content, PAYMENT_SUCCEEDED)
    /\ \A i \in 1..Len(hist0) :
         i # Len(hist0) - HistoryWindow + 1 => ~Contains(hist0[i].content, PAYMENT_SUCCEEDED)
    /\ outcome[1].via = "checkstate"
    /\ llmCalls = <<>>

(***************************************************************************)
(* C6. Prior Context is preserved by a turn: however the turn ends, every  *)
(* entry that was in context.history before the turn, and the non-empty    *)
(* inbound message, is still there in the same order; a rollback pop only  *)
(* removes an entry appended during the same attempt.                      *)
(***************************************************************************)
C6_PriorContextPreserved ==
    /\ Ended => IsPrefix(hist0, history)
    /\ rollback # <<>> => rollback[1].removed > rollback[1].start

(***************************************************************************)
(* C7. Validation gates release: a reply returned by generate_response,    *)
(* other than the terminal [CONVERSATION_ENDS] reply of CheckState, is the *)
(* candidate most recently given to the validator; it is returned after    *)
(* fewer than 3 rejections only if the validator's answer to it was        *)
(* exactly [YES]; an unapproved reply is the candidate of the 3rd attempt. *)
(***************************************************************************)
C7_ValidationGatesRelease ==
    (pc = "returned" /\ outcome[1].via # "checkstate") =>
        /\ submitted # <<>>
        /\ outcome[1].response = submitted[1].candidate
        /\ outcome[1].reply.content = submitted[1].candidate.content
        /\ retry < MaxRetries => submitted[1].raw = <<YES>>
        /\ submitted[1].raw # <<YES>> =>
            /\ retry = MaxRetries
            /\ NumCalls("generate") = MaxRetries
            /\ NumCalls("validate") = MaxRetries
            /\ submitted[1].candidate.n >= generated.n

\* A reply approved at the second attempt, after the validator answered the first
\* candidate with a text that only begins with the approval token.
C7_Witness ==
    /\ pc = "returned"
    /\ outcome[1].via = "approved"
    /\ retry = 1
    /\ llmCalls[Len(llmCalls) - 1].feedback # <<>>
    /\ Contains(llmCalls[Len(llmCalls) - 1].feedback, YES)
    /\ submitted[1].raw = <<YES>>

(***************************************************************************)
(* C8 as stated. If the validator always returns [YES], generate_response  *)
(* returns the first generated candidate after exactly one generation call *)
(* and no retry, whether or not the candidate contains tool calls.         *)
(***************************************************************************)
C8_FirstCandidateOneCall ==
    (pc = "returned" /\ outcome[1].via # "checkstate" /\ retry = 0) =>
        /\ NumCalls("generate") + NumCalls("regenerate") = 1
        /\ NumCalls("validate") = 1
        /\ outcome[1].response = generated

(***************************************************************************)
(* C8 as amended. If the validator always returns [YES], generate_response *)
(* returns after one attempt and no retry: the first generated candidate   *)
(* after exactly one generation call when that candidate has no tool       *)
(* calls; the regenerated candidate after exactly two generation calls     *)
(* (the generation and one regeneration) when it has.                      *)
(***************************************************************************)
C8_OneAttemptWhenApproved ==
    (pc = "returned" /\ outcome[1].via # "checkstate" /\ retry = 0) =>
        /\ outcome[1].via = "approved"
        /\ NumCalls("generate") = 1
        /\ NumCalls("validate") = 1
        /\ IF generated.tool_calls = <<>>
           THEN /\ NumCalls("regenerate") = 0
                /\ toolLog = <<>>
                /\ outcome[1].response = generated
           ELSE /\ NumCalls("regenerate") = 1
                /\ Len(toolLog) = Len(generated.tool_calls)
                /\ outcome[1].response.n = generated.n + 1
                /\ llmCalls[outcome[1].response.n].kind = "regenerate"

\* A candidate with two tool calls, dispatched, regenerated and approved at once.
C8_Witness ==
    /\ pc = "returned"
    /\ outcome[1].via = "approved"
    /\ retry = 0
    /\ Len(generated.tool_calls) = 2
    /\ Len(toolLog) = 2
    /\ outcome[1].response # generated

(***************************************************************************)
(* C9. Cache hit: over any sequence of init_chat calls on one instance,    *)
(* personal_preferences[counterparty name] is computed exactly once per    *)
(* counterparty; a later call for a counterparty that has an entry makes   *)
(* no model call and leaves the entry unchanged.                           *)
(***************************************************************************)
C9_CacheHit ==
    /\ \A c \in DOMAIN computed : computed[c] <= 1
    /\ (before # <<>> /\ rsender \in DOMAIN before[1].preferences) =>
        /\ llmCalls = <<>>
        /\ personal_preferences[rsender] = before[1].preferences[rsender]

(***************************************************************************)
(* C10. When the owner's personal-data directory does not exist,           *)
(* retrieve_personal_preferences fails with an error naming the missing    *)
(* path, which contains the owner, makes no language-model call and leaves *)
(* personal_basic_info and every personal_preferences entry as they were.  *)
(***************************************************************************)
C10_MissingDirectory ==
    (retrievals > 0 /\ ~fs.exists) =>
        /\ rpc = "idle"
        /\ outcome # <<>>
        /\ outcome[1].type = "raise"
        /\ outcome[1].error.type = "ValueError"
        /\ \E i \in 1..Len(outcome[1].error.text) :
               /\ i + Len(personal_data_dir(owner)) - 1 <= Len(outcome[1].error.text)
               /\ SubSeq(outcome[1].error.text, i, i + Len(personal_data_dir(owner)) - 1)
                      = personal_data_dir(owner)
        /\ Contains(outcome[1].error.text, owner)
        /\ llmCalls = <<>>
        /\ requests = 0
        /\ personal_basic_info = before[1].basic
        /\ personal_preferences = before[1].preferences

\* The directory was there for a first retrieval and is gone at the second.
C10_Witness ==
    /\ retrievals = 2
    /\ ~fs.exists
    /\ rpc = "idle"
    /\ before[1].preferences # <<>>
    /\ before[1].basic # StrValue(<<>>)
    /\ outcome[1].type = "raise"


(***************************************************************************)
(* Claims about the tool results of a turn.                                *)
(***************************************************************************)
\* Number of entries of h whose sender is a tool.
ToolEntries(h) ==
    Cardinality({i \in 1..Len(h) : \E name \in ToolNames : h[i].sender = ToolSender(name)})

\* C11: when on_message returns, the history holds a tool-result entry for
\* every handler invocation of the turn, those of rejected attempts included,
\* and the returned reply is the last entry of the history.
C11_ToolResultsKept ==
    (pc = "returned") =>
        /\ ToolEntries(history) = Len(toolLog)
        /\ history # <<>>
        /\ history[Len(history)] = outcome[1].reply

\* The half of C11 that the code keeps: the reply is the newest entry.
ReplyIsLastEntry ==
    (pc = "returned") => (history # <<>> /\ history[Len(history)] = outcome[1].reply)


\* C12: when the chat-state check classifies [CONVERSATION_ENDS], by the
\* short-circuit or by the model's answer, the turn sets task_complete, returns
\* a reply whose content is exactly [CONVERSATION_ENDS], and makes no generation
\* call, no tool invocation and no validation call; when the marker is not in
\* the window, exactly one classification call is made, before any generation.
C12_EndsAtCheckState ==
    /\ (pc = "returned" /\ outcome[1].via = "checkstate") =>
          /\ task_complete
          /\ outcome[1].reply.content = <<CONVERSATION_ENDS>>
          /\ history[Len(history)].content = <<CONVERSATION_ENDS>>
          /\ NumCalls("generate") = 0
          /\ NumCalls("regenerate") = 0
          /\ NumCalls("validate") = 0
          /\ toolLog = <<>>
          /\ Len(llmCalls) = IF MarkerInWindow(hist0) THEN 0 ELSE 1
    /\ (pc \notin {"idle", "check"} /\ ~MarkerInWindow(hist0)) =>
          /\ llmCalls # <<>>
          /\ llmCalls[1].kind = "check"
          /\ NumCalls("check") = 1
    /\ (pc = "returned" /\ NumCalls("generate") = 0) => outcome[1].via = "checkstate"

\* The model's answer ended the turn: no marker in the window, one call.
C12_Witness ==
    /\ pc = "returned"
    /\ outcome[1].via = "checkstate"
    /\ ~MarkerInWindow(hist0)
    /\ Len(llmCalls) = 1
    /\ task_complete

\* The other case of C12: a turn that went on to generate after one check call.
C12_WitnessContinue ==
    /\ pc = "validate"
    /\ ~MarkerInWindow(hist0)
    /\ llmCalls[1].kind = "check"
    /\ NumCalls("generate") = 2


\* C13: whenever on_message returns a message whose content is exactly
\* [CONVERSATION_ENDS], from the chat-state check or from a generated and
\* validated candidate, task_complete is true after the call.
C13_EndsSetsTaskComplete ==
    (pc = "returned" /\ outcome[1].reply.content = <<CONVERSATION_ENDS>>) => task_complete


(***************************************************************************)
(* Claims about the provider.                                              *)
(***************************************************************************)
\* C14: OpenAILLMProvider.generate sends at most one provider request per call
\* and never retries: without a credential it fails before any request is
\* sent; a failed request raises one uniform error that carries the underlying
\* message; and a provider error inside a turn ends on_message with that error,
\* the loop starting no further attempt.
C14_OneRequestNoRetry ==
    /\ requests <= Len(llmCalls)
    /\ ~api_key => requests = 0
    /\ (~api_key /\ llmCalls # <<>>) =>
          /\ RaisedType("ValueError")
          /\ outcome[1].error.text = <<"API key not provided">>
          /\ Len(llmCalls) = 1
    /\ (api_key /\ pc \notin {"idle", "check"}) => requests = Len(llmCalls)
    /\ (api_key /\ RaisedType("ValueError")) =>
          /\ outcome[1].error.text = <<"OpenAI API error: ", "provider failure">>
          /\ llmCalls # <<>>
    /\ RaisedType("ValueError") =>
          /\ NumCalls("generate") <= retry + 1
          /\ NumCalls("validate") <= retry + 1

\* A provider failure in the second attempt of a turn.
C14_Witness ==
    /\ RaisedType("ValueError")
    /\ api_key
    /\ retry = 1
    /\ NumCalls("generate") = 2
    /\ requests = Len(llmCalls)


(***************************************************************************)
(* Claims about tool dispatch and regeneration.                            *)
(***************************************************************************)
\* What the code keeps of C15: after the dispatch of an attempt the candidate is
\* regenerated once, the validator gets the regenerated candidate, and the tool
\* calls of a regenerated candidate are not dispatched.
RegeneratedOnceNotDispatched ==
    /\ NumCalls("regenerate") <= NumCalls("generate")
    /\ \A i \in 1..Len(llmCalls) :
          llmCalls[i].kind = "regenerate" =>
              /\ i > 1
              /\ llmCalls[i - 1].kind = "generate"
              /\ i < Len(llmCalls) => llmCalls[i + 1].kind = "validate"
    /\ (pc = "validate" /\ generated.tool_calls # <<>>) =>
          /\ llmCalls[Len(llmCalls)].kind = "regenerate"
          /\ response.n = Len(llmCalls)
          /\ response.n # generated.n
    /\ (pc = "validate") =>
          Cardinality({i \in 1..Len(toolLog) : toolLog[i].retry = retry})
              = Len(generated.tool_calls)

\* C15: after tool dispatch the candidate is regenerated exactly once in that
\* attempt, and this regeneration call is made without offering the tool schema
\* to the model; tool calls of the regenerated candidate are never dispatched in
\* the same attempt, and the validator gets the regenerated candidate.
C15_RegenerationWithoutTools ==
    /\ RegeneratedOnceNotDispatched
    /\ \A i \in 1..Len(llmCalls) : llmCalls[i].kind = "regenerate" => ~llmCalls[i].tools


\* The handler invocations of the attempt in progress, in the order made.
CurrentInvocations == SelectSeq(toolLog, LAMBDA e : e.retry = retry)

\* C16: for a candidate with tool calls c1..ck the handlers are invoked once
\* each, in the candidate's order, each with its own arguments and the turn's
\* inbound message; each result is appended to the history right after its
\* invocation, with sender "[<tool name>] tool", before the next call is made
\* and before the regeneration call.
C16_DispatchInOrder ==
    (pc \in {"dispatch", "regenerate", "validate"} /\ generated.tool_calls # <<>>) =>
        LET cur   == CurrentInvocations
            calls == generated.tool_calls
        IN /\ Len(cur) <= Len(calls)
           /\ \A i \in 1..Len(cur) :
                 /\ cur[i].name = calls[i].name
                 /\ cur[i].arguments = calls[i].arguments
                 /\ cur[i].message = message
                 /\ cur[i].at = attemptStart + i
                 /\ history[attemptStart + i].sender = <<"[", calls[i].name, "] tool">>
                 /\ history[attemptStart + i].content \in ToolResults
           /\ message.content # <<>> => message = hist0[Len(hist0)]
           /\ Len(history) = attemptStart + Len(cur)
           /\ toolQueue = SubSeq(calls, Len(cur) + 1, Len(calls))
           /\ pc = "dispatch" =>
                 /\ Len(cur) < Len(calls)
                 /\ llmCalls[Len(llmCalls)].kind = "generate"
           /\ pc \in {"regenerate", "validate"} => Len(cur) = Len(calls)
           /\ pc = "regenerate" => llmCalls[Len(llmCalls)].kind = "generate"

\* Two calls of one candidate were dispatched in the second attempt of a turn.
C16_Witness ==
    /\ pc = "regenerate"
    /\ retry = 1
    /\ Len(generated.tool_calls) = 2
    /\ Len(CurrentInvocations) = 2
    /\ CurrentInvocations[1].arguments # CurrentInvocations[2].arguments


(***************************************************************************)
(* Claims about the validator's feedback.                                  *)
(***************************************************************************)
\* The validation calls made before call i of the turn.
ValidationsBefore(i) == {j \in 1..(i - 1) : llmCalls[j].kind = "validate"}

\* The note made of a rejection: the rejected text and the validator's reason.
RejectionNotes(rejected) ==
    {<<"# Notes\nPlease do not generate response like this: \n">> \o rejected
        \o <<"\n\nThe reason is: \n">> \o raw : raw \in ValidatorOutputs \ {<<YES>>}}

\* C17: the generation calls of the first attempt get empty feedback, and every
\* generation call of attempt n+1, first generation and regeneration alike, gets
\* the rejection feedback the validator produced in attempt n, never an older
\* one and never the approval token.
C17_FeedbackCarriedForward ==
    \A i \in 1..Len(llmCalls) :
        llmCalls[i].kind \in {"generate", "regenerate"} =>
            IF ValidationsBefore(i) = {}
            THEN llmCalls[i].feedback = <<>>
            ELSE LET j == CHOOSE k \in ValidationsBefore(i) :
                              \A m \in ValidationsBefore(i) : m <= k
                 IN /\ llmCalls[i].feedback \in RejectionNotes(llmCalls[j].feedback)
                    /\ llmCalls[i].feedback # <<YES>>

\* The third attempt dispatched a tool and regenerated; the first two attempts
\* were rejected for different texts, so the older feedback differs.
C17_Witness ==
    /\ pc = "validate"
    /\ retry = 2
    /\ llmCalls[Len(llmCalls)].kind = "regenerate"
    /\ \E j, k \in 1..Len(llmCalls) :
          /\ j < k
          /\ llmCalls[j].kind = "validate"
          /\ llmCalls[k].kind = "validate"
          /\ llmCalls[j].feedback # llmCalls[k].feedback


(***************************************************************************)
(* Claims about a tool name nobody registered.                             *)
(***************************************************************************)
\* The positions of the candidate's calls that name no registered tool.
UnknownCalls(calls) == {i \in 1..Len(calls) : calls[i].name \notin registered_tools}

\* C18: when a candidate names a tool that is not in the registry, the dispatch
\* fails with an error instead of skipping the call: no handler is invoked for
\* that call or for the later calls of the candidate, no regeneration or
\* validation call follows, and the turn returns no reply.
C18_UnknownToolFails ==
    (pc \notin {"idle", "check", "generate"} /\ UnknownCalls(generated.tool_calls) # {}) =>
        LET calls == generated.tool_calls
            u     == CHOOSE i \in UnknownCalls(calls) : \A k \in UnknownCalls(calls) : i <= k
        IN /\ pc \in {"dispatch", "raised"}
           /\ Len(CurrentInvocations) < u
           /\ llmCalls[Len(llmCalls)].kind = "generate"
           /\ pc = "raised" =>
                 /\ outcome[1].type = "raise"
                 /\ outcome[1].error.type = "KeyError"
                 /\ outcome[1].error.text = <<calls[u].name>>
                 /\ Len(CurrentInvocations) = u - 1
                 /\ Len(history) = attemptStart + u - 1
                 /\ history = <<>> \/ history[Len(history)].sender # <<SelfName>>

\* The first call of the candidate names an unknown tool and a call of the
\* registered tool comes after it: the turn raised and no handler ran.
C18_Witness ==
    /\ pc = "raised"
    /\ outcome[1].error.type = "KeyError"
    /\ Len(generated.tool_calls) = 2
    /\ generated.tool_calls[1].name \notin registered_tools
    /\ generated.tool_calls[2].name \in registered_tools
    /\ toolLog = <<>>


(***************************************************************************)
(* Claims about the order of a retrieval.                                  *)
(***************************************************************************)
\* The documents of a listing besides the basic-info document, in listing order.
Documents(listing) ==
    SelectSeq(listing, LAMBDA f : f.ext = ".json" /\ f.stem # <<"basic_info">>)

\* A call of retrieve_personal_preferences has ended.
RetrievalEnded(type) ==
    /\ retrievals > 0
    /\ rpc = "idle"
    /\ outcome # <<>>
    /\ outcome[1].type = type

\* C19: one call of retrieve_personal_preferences over a directory with N
\* documents besides basic_info.json makes exactly N+2 model calls, none
\* offering tools: the basic-info summary, one extraction per document, one
\* final summary over the joined extracts. personal_preferences[counterparty]
\* is written only after the final summary, so an error while reading or
\* parsing a document leaves that entry as it was.
C19_RetrievalOrder ==
    LET docs == Documents(fs.listing)
        N    == Len(docs)
    IN /\ \A i \in 1..Len(llmCalls) : ~llmCalls[i].tools
       /\ RetrievalEnded("return") =>
             /\ Len(llmCalls) = N + 2
             /\ requests = N + 2
             /\ llmCalls[1].kind = "summarize"
             /\ llmCalls[1].feedback = <<BasicInfoFile>>
             /\ \A i \in 1..N :
                   /\ llmCalls[i + 1].kind = "retrieve"
                   /\ llmCalls[i + 1].feedback = <<docs[i]>>
             /\ llmCalls[N + 2].kind = "summarize"
             /\ llmCalls[N + 2].feedback
                    = Join([i \in 1..N |-> <<"extract of ", docs[i]>>], "\n\n")
             /\ rsender \in DOMAIN personal_preferences
             /\ personal_preferences[rsender] \in SummaryOutputs
       /\ rpc = "documents" =>
             /\ personal_preferences = before[1].preferences
             /\ Len(llmCalls) <= N + 1
       /\ RetrievalEnded("raise") =>
             /\ personal_preferences = before[1].preferences
             /\ Len(llmCalls) <= N + 2
             /\ outcome[1].error.type = "JSONDecodeError" =>
                   /\ \E i \in 1..N : outcome[1].error.text = <<docs[i]>> /\ docs[i] \in fs.malformed
                   /\ NumCalls("summarize") = 1

\* Two documents and a file that is no document, retrieved a second time for a
\* counterparty: four model calls.
C19_Witness ==
    /\ RetrievalEnded("return")
    /\ retrievals = 2
    /\ Len(Documents(fs.listing)) = 2
    /\ Len(fs.listing) = 4
    /\ Len(llmCalls) = 4
    /\ rsender \in DOMAIN before[1].preferences

\* The second document cannot be parsed: the call ends after one extraction.
C19_WitnessParseError ==
    /\ RetrievalEnded("raise")
    /\ outcome[1].error.type = "JSONDecodeError"
    /\ Len(llmCalls) = 2
    /\ personal_preferences = before[1].preferences


(***************************************************************************)
(* Claims about the turn after a payment.                                  *)
(***************************************************************************)
\* C20: if a tool invoked during a turn returned a result that contains
\* [PAYMENT_SUCCEEDED], the next on_message turn on the same Context ends by
\* the short-circuit of the chat-state check: [CONVERSATION_ENDS], no model
\* call, and no tool dispatched again.
C20_PaymentEndsNextTurn ==
    (paidBefore /\ pc \notin {"idle", "check"}) =>
        /\ pc = "returned"
        /\ outcome[1].via = "checkstate"
        /\ outcome[1].reply.content = <<CONVERSATION_ENDS>>
        /\ llmCalls = <<>>
        /\ toolLog = <<>>

\* What the code keeps of C20: the turn after a payment whose result is still
\* among the newest entries of the history ends by the short-circuit.
PaymentInWindowEndsNextTurn ==
    (paidBefore /\ pc \notin {"idle", "check"} /\ MarkerInWindow(hist0)) =>
        /\ pc = "returned"
        /\ outcome[1].via = "checkstate"
        /\ llmCalls = <<>>
        /\ toolLog = <<>>

====
